---- MODULE Spec2Model ----
(***************************************************************************)
(* Model of jobtool: the status classifier (status.py), the tree walker    *)
(* (walker.py) and the include/exclude filter stage (jobfolder.py).        *)
(*                                                                         *)
(* A directory tree is a sequence of directories 1..n; parent[d] is the    *)
(* directory that lists d (0 for the top of the tree), marker[d] says      *)
(* whether d holds the initial file, log[d] is d's log file.  A log line   *)
(* is a sequence of tokens: the two literal texts the regular expressions  *)
(* look for, a whitespace character (the line terminator included) and     *)
(* any other text.                                                         *)
(***************************************************************************)
EXTENDS Integers, Sequences, FiniteSets, TLC

VARIABLES parent, marker, log,
          pc, folder, include, exclude, lines_checked, with_status,
          stack, yielded, results, ret,
          readable, relative, userstring, parsed,
          format, output, without_status,
          visited, pending, written, file, open_logs, peak_open,
          passes, filtered

vars == <<parent, marker, log, pc, folder, include, exclude, lines_checked,
          with_status, stack, yielded, results, ret,
          readable, relative, userstring, parsed, format, output, without_status,
          visited, pending, written, file, open_logs, peak_open,
          passes, filtered>>

\* the directory tree: readable[d] says whether os.scandir(d) succeeds
fsvars == <<parent, marker, log, readable>>
callvars == <<folder, include, exclude, lines_checked, with_status>>
\* how the folder argument is spelled, and the string handed to from_string
argvars == <<relative, userstring>>
\* the options of the jobfolders command
clivars == <<format, output, without_status>>
\* the sink: the items formatted and not yet written, what was written, and
\* the state of the output file
sinkvars == <<pending, written, file>>
\* the log files open now, and the most that were open at once
logvars == <<open_logs, peak_open>>
\* kept to compare: how often the consumer has started over on the iterator
\* it has exhausted, and what apply_filters has returned
comparevars == <<passes, filtered>>

(* ------------------------------ bounds -------------------------------- *)
MaxDirs == 2
MaxLogLines == 2
MaxLinesChecked == 2
MaxStringLen == 4
MaxPasses == 2
MaxResults == 2

(* ------------------------------ status.py ----------------------------- *)
Status == {"unknown", "converged", "not_converged", "unfinished", "not_started"}

None == "None"

DATE == "Date:"
DNC == "Did not converge!"
WS == " "
TXT == "x"
Tokens == {DATE, DNC, WS, TXT}

\* the lines readlines() can return: never the empty string
Lines == {<<a>> : a \in Tokens} \cup {<<a, b>> : a \in Tokens, b \in Tokens}

NoFile == [exists |-> FALSE, lines |-> <<>>]
File(ls) == [exists |-> TRUE, lines |-> ls]

Min(a, b) == IF a < b THEN a ELSE b
Max(a, b) == IF a > b THEN a ELSE b

\* re.compile('^Date:').match(line)
CONVERGED_SIGNAL(line) == Len(line) >= 1 /\ line[1] = DATE

\* mutant: the pattern without \s*, and "$" taken as the very end of the line
NOT_CONVERGED_SIGNAL_exact(line) == line = <<DNC>>

\* re.compile(r'^Did not converge!\s*$').match(line)
NOT_CONVERGED_SIGNAL(line) ==
    /\ Len(line) >= 1
    /\ line[1] = DNC
    /\ \A i \in 2..Len(line) : line[i] = WS

\* mutant: a directory counts as a jobfolder only when it has a log as well
is_jobfolder_with_log(d) == marker[d] /\ log[d].exists

\* path.joinpath(initialfilename).exists()
is_jobfolder(d) == marker[d]

\* mutant: an empty log file is taken for a missing one
logfile_exists_nonempty(d) == log[d].exists /\ log[d].lines # <<>>

\* path.joinpath(logfilename).exists()
logfile_exists(d) == log[d].exists

\* filewrapper.readlines()
readlines(d) == log[d].lines

\* Python's lines[start:]: a negative start counts from the end, and both
\* ends are clipped to the list
SliceFrom(lines, start) ==
    LET n == Len(lines)
        s == IF start < 0 THEN Max(n + start, 0) ELSE Min(start, n)
    IN  SubSeq(lines, s + 1, n)

\* mutant: lines[-lines_checked:][:1], the first line of the window only
last_few_lines_first_only(lines, lc) == SubSeq(SliceFrom(lines, 0 - lc), 1, 1)

\* lines[-lines_checked:]
last_few_lines(lines, lc) == SliceFrom(lines, 0 - lc)

\* mutant: the two tests in the other order
status_of_lines_scan_first(lfl) ==
    IF \E i \in 1..Len(lfl) : NOT_CONVERGED_SIGNAL(lfl[i]) THEN "not_converged"
    ELSE IF CONVERGED_SIGNAL(lfl[Len(lfl)]) THEN "converged"
    ELSE "unfinished"

\* the decision on the lines kept, after the file is closed
status_of_lines(lfl) ==
    IF CONVERGED_SIGNAL(lfl[Len(lfl)]) THEN "converged"
    ELSE IF \E i \in 1..Len(lfl) : NOT_CONVERGED_SIGNAL(lfl[i]) THEN "not_converged"
    ELSE "unfinished"

Outcome(raised, value, opened) ==
    [raised |-> raised, value |-> value, opened |-> opened]

\* mutant: strict is ignored, a directory that is no jobfolder gives None
get_status_never_raises(d, lc, strict) ==
    IF ~is_jobfolder(d) THEN Outcome(FALSE, None, FALSE)
    ELSE IF ~logfile_exists(d) THEN Outcome(FALSE, "not_started", FALSE)
    ELSE IF readlines(d) = <<>> THEN Outcome(FALSE, "unknown", TRUE)
    ELSE Outcome(FALSE, status_of_lines(last_few_lines(readlines(d), lc)), TRUE)

\* get_status(path, lines_checked, ..., strict): what the call does
get_status(d, lc, strict) ==
    IF ~is_jobfolder(d)
    THEN IF strict THEN Outcome(TRUE, None, FALSE) ELSE Outcome(FALSE, None, FALSE)
    ELSE IF ~logfile_exists(d) THEN Outcome(FALSE, "not_started", FALSE)
    ELSE IF readlines(d) = <<>> THEN Outcome(FALSE, "unknown", TRUE)
    ELSE Outcome(FALSE, status_of_lines(last_few_lines(readlines(d), lc)), TRUE)

\* mutant: open() without "with", the return on an empty log leaves it open
get_status_events_no_with(d, lc, strict) ==
    IF ~is_jobfolder(d) \/ ~logfile_exists(d) THEN <<>>
    ELSE IF readlines(d) = <<>> THEN <<"open", "readlines", "return">>
    ELSE <<"open", "readlines", "slice", "close", "match", "return">>

\* what get_status does to the log file, in order: the "with open(...)" block
\* is left by the return on an empty log or after the slice, and closes the
\* file either way; the lines are matched after it
get_status_events(d, lc, strict) ==
    IF ~is_jobfolder(d) \/ ~logfile_exists(d) THEN <<>>
    ELSE IF readlines(d) = <<>> THEN <<"open", "readlines", "close", "return">>
    ELSE <<"open", "readlines", "slice", "close", "match", "return">>

\* the log files open after the events of a call on d
RECURSIVE OpenAfter(_, _, _)
OpenAfter(opn, d, events) ==
    IF events = <<>> THEN opn
    ELSE OpenAfter(CASE Head(events) = "open" -> opn \cup {d}
                     [] Head(events) = "close" -> opn \ {d}
                     [] OTHER -> opn,
                   d, Tail(events))

\* the most log files open at once during the events of a call on d
RECURSIVE PeakDuring(_, _, _)
PeakDuring(opn, d, events) ==
    IF events = <<>> THEN Cardinality(opn)
    ELSE Max(Cardinality(opn),
             PeakDuring(OpenAfter(opn, d, <<Head(events)>>), d, Tail(events)))

\* Status.from_string(string): string.strip().lower().replace('-', '_'), then
\* the lookup of the member with that value.  A user string is a sequence of
\* tokens: words (in some letter case) and the separators "-", "_" and " ".
lower_token(t) ==
    CASE t \in {"not", "NOT", "Not"} -> "not"
      [] t \in {"converged", "CONVERGED", "Converged"} -> "converged"
      [] t \in {"started", "STARTED", "Started"} -> "started"
      [] t \in {"unfinished", "UNFINISHED", "Unfinished"} -> "unfinished"
      [] t \in {"unknown", "UNKNOWN", "Unknown"} -> "unknown"
      [] t \in {"bogus", "BOGUS", "Bogus"} -> "bogus"
      [] OTHER -> t

\* str.lower()
lower(string) == [i \in DOMAIN string |-> lower_token(string[i])]

\* str.strip(): leading and trailing whitespace removed
RECURSIVE lstrip(_)
lstrip(string) ==
    IF string # <<>> /\ Head(string) = WS THEN lstrip(Tail(string)) ELSE string

RECURSIVE rstrip(_)
rstrip(string) ==
    IF string # <<>> /\ string[Len(string)] = WS
    THEN rstrip(SubSeq(string, 1, Len(string) - 1))
    ELSE string

strip(string) == rstrip(lstrip(string))

\* str.replace('-', '_')
replace_hyphen(string) ==
    [i \in DOMAIN string |-> IF string[i] = "-" THEN "_" ELSE string[i]]

\* the value enum.auto() gives each member of the StrEnum: its name in lower case
StatusValue(m) ==
    CASE m = "unknown" -> <<"unknown">>
      [] m = "converged" -> <<"converged">>
      [] m = "not_converged" -> <<"not", "_", "converged">>
      [] m = "unfinished" -> <<"unfinished">>
      [] m = "not_started" -> <<"not", "_", "started">>

ValueError == "ValueError"

from_string(string) ==
    LET v == replace_hyphen(lower(strip(string)))
    IN  IF \E m \in Status : StatusValue(m) = v
        THEN CHOOSE m \in Status : StatusValue(m) = v
        ELSE ValueError

(* ------------------------------ walker.py ----------------------------- *)
Dirs == DOMAIN parent

RECURSIVE Ascending(_)
Ascending(S) ==
    IF S = {} THEN <<>>
    ELSE LET m == CHOOSE x \in S : \A y \in S : x <= y
         IN  <<m>> \o Ascending(S \ {m})

\* the subdirectories os.walk lists in d, in the order it walks them
Subdirs(d) == Ascending({c \in Dirs : parent[c] = d})

\* mutant: the walk does not descend into a jobfolder
os_walk_rest_pruned(stk) ==
    IF marker[Head(stk)] THEN Tail(stk) ELSE Subdirs(Head(stk)) \o Tail(stk)

\* os.walk(folder), top down: the directories still to be walked once the
\* first of them has been produced
os_walk_rest(stk) == Subdirs(Head(stk)) \o Tail(stk)

\* os.walk is called without onerror: a directory whose scandir fails is
\* passed over, neither produced nor descended into, and the walk goes on
os_walk_skips(d) == ~readable[d]

\* os.walk(folder) before its first item: a folder that is no directory
\* gives a walk that ends at once
os_walk(f) == IF f \in Dirs THEN <<f>> ELSE <<>>

Result(path, status) == [path |-> path, status |-> status]

\* mutant: walker returns a list-like object, iter() starts over at the folder
exhausted_walk_restarts(f, stk) == os_walk(f)

\* iter() on the map object walker returns is the object itself, over the
\* one os.walk generator: what is left to walk is what was left before
exhausted_walk(f, stk) == stk

\* mutant: the walker resolves the roots, pathlib.Path(root).absolute()
walked_path_resolved(d, rel) == [dir |-> d, absolute |-> TRUE]

\* pathlib.Path(root) for a root os.walk produces: os.walk joins the names
\* to the folder it was given, so the path is relative when the folder is
walked_path(d, rel) == [dir |-> d, absolute |-> ~rel]

\* Path.absolute()
absolute(p) == [p EXCEPT !.absolute = TRUE]

\* as_result(jobfolder): the strict classification of a directory
as_result(d, lc) == get_status(d, lc, TRUE)

(* ----------------------------- jobfolder.py --------------------------- *)
\* _filter_func(statuses): the set of statuses built when the filter is made
set_of_statuses(statuses) == {from_string(s) : s \in statuses}

\* mutant: the strings are parsed when the first result is filtered
filter_raises_lazily(statuses) == FALSE

\* whether building the filter raises
filter_raises(statuses) == ValueError \in set_of_statuses(statuses)

\* mutant: "elif exclude", the exclude filter is skipped when include is given
keeps_elif(status, inc, exc) ==
    IF inc # {} THEN status \in set_of_statuses(inc)
    ELSE (exc # {} => status \notin set_of_statuses(exc))

\* mutant: "if include is not None", an empty include keeps nothing
keeps_empty_include(status, inc, exc) ==
    /\ status \in set_of_statuses(inc)
    /\ (exc # {} => status \notin set_of_statuses(exc))

\* the two filters get_jobfolders stacks on the walker: include, then exclude
keeps(status, inc, exc) ==
    /\ (inc # {} => status \in set_of_statuses(inc))
    /\ (exc # {} => status \notin set_of_statuses(exc))

\* results if with_status else map(operator.itemgetter(0), results)
emitted(result, ws) == IF ws THEN result ELSE [path |-> result.path]

\* what get_jobfolders returns for a walker that yields the sequence walked
filter_results(walked, inc, exc, ws) ==
    LET kept(r) == keeps(r.status, inc, exc)
        passing == SelectSeq(walked, kept)
    IN  [i \in DOMAIN passing |-> emitted(passing[i], ws)]

(* ------------------------- src/jobtool/filters.py --------------------- *)
\* homogenize_user_input(userstring): userstring.strip().lower()
homogenize_user_input(string) == lower(strip(string))

\* check_status_match(statuses): the set the status of a result is looked up
\* in; the status is a StrEnum member and compares as its value
check_status_match(statuses) == {homogenize_user_input(x) : x \in statuses}

check_status(result, statuses) ==
    StatusValue(result.status) \in check_status_match(statuses)

\* mutant: "elif include", the include filter is skipped when exclude is given
apply_filters_elif(walked, inc, exc) ==
    LET excluded(r) == ~check_status(r, exc)
        included(r) == check_status(r, inc)
    IN  IF exc # {} THEN SelectSeq(walked, excluded)
        ELSE IF inc # {} THEN SelectSeq(walked, included)
        ELSE walked

\* apply_filters(walker, include, exclude): filterfalse on exclude, then
\* filter on include, each only for a non-empty argument
apply_filters(walked, inc, exc) ==
    LET excluded(r) == ~check_status(r, exc)
        included(r) == check_status(r, inc)
        without == IF exc # {} THEN SelectSeq(walked, excluded) ELSE walked
    IN  IF inc # {} THEN SelectSeq(without, included) ELSE without

(* ------------------------- format.py, write.py ------------------------ *)
\* mutant: fp.writelines(list(results)), the lines are collected first
may_pull_buffered(fmt, pend) == TRUE

\* fp.writelines(results) writes each line before it asks for the next
may_pull(fmt, pend) == fmt = "csv" => pend = <<>>

\* the path of a result as the formatters see it
result_path(result) == walked_path(result.path, relative)

is_path_only(result) == "status" \notin DOMAIN result

PathField(p) == [path |-> p]
StatusField(st) == [status |-> st]

\* json_formatter(result): the object of a path or of a Result
json_formatter(result) ==
    IF is_path_only(result)
    THEN [path |-> absolute(result_path(result))]
    ELSE [path |-> absolute(result_path(result)), status |-> result.status]

\* csv_formatter(result): the fields of the line, in the order written
csv_formatter(result) ==
    IF is_path_only(result)
    THEN <<PathField(absolute(result_path(result)))>>
    ELSE <<StatusField(result.status), PathField(absolute(result_path(result)))>>

\* the header write_results_csv writes: the names of the columns, in order
csv_header(ws) == IF ws THEN <<"path", "status">> ELSE <<"path">>

Formats == {"csv", "json"}

\* the formatter the jobfolders command maps over the results
formatted(fmt, result) ==
    IF fmt = "csv" THEN csv_formatter(result) ELSE json_formatter(result)

(* --------------------------- inputs of the model ---------------------- *)
\* every log file of at most MaxLogLines lines
Logs == UNION {[1..k -> Lines] : k \in 0..MaxLogLines}

\* the directories of the walked trees: without the initial file (with and
\* without a log), and with it and no log, an empty log, a log ending in
\* "Date:", a log whose "Did not converge!" line is the last but one
SampleDirs ==
    { [marker |-> FALSE, log |-> NoFile],
      [marker |-> FALSE, log |-> File(<< <<DATE>> >>)],
      [marker |-> TRUE, log |-> NoFile],
      [marker |-> TRUE, log |-> File(<<>>)],
      [marker |-> TRUE, log |-> File(<< <<DATE, TXT>> >>)],
      [marker |-> TRUE, log |-> File(<< <<DNC, WS>>, <<TXT>> >>)] }

\* the tree shapes of n directories: directory 1 is the top
Trees(n) == {p \in [1..n -> 0..n] : p[1] = 0 /\ \A d \in 2..n : p[d] \in 1..(d - 1)}

\* the include and exclude arguments: none (None or an empty sequence, both
\* false at "if include:"), and sets of user strings
FilterChoices ==
    { {},
      {<<"converged">>},
      {<<WS, "CONVERGED", WS>>, <<"Not", "-", "Started">>},
      {<<"bogus">>} }

NoRet == [path |-> 0, lines_checked |-> 0, strict |-> FALSE,
          raised |-> FALSE, value |-> None, opened |-> FALSE]

\* a folder argument that names no directory: a missing path or a file
NoDirectory == 0

\* the directories of the trees the jobfolders command is run on
CliSampleDirs ==
    { [marker |-> FALSE, log |-> NoFile],
      [marker |-> TRUE, log |-> NoFile],
      [marker |-> TRUE, log |-> File(<< <<DATE, TXT>> >>)] }

\* the --include and --exclude options given to the command
CliFilterChoices == { {}, {<<"converged">>}, {<<"bogus">>} }

\* the --format option: the two formats and a name that is neither
FormatChoices == Formats \cup {"xml"}

\* the directories of the trees with directories that cannot be listed
IOSampleDirs ==
    { [marker |-> FALSE, log |-> NoFile],
      [marker |-> TRUE, log |-> NoFile] }

\* the strings handed to Status.from_string
StringTokens == {"not", "NOT", "converged", "Converged", "unknown", "-", "_", WS}
Strings == UNION {[1..k -> StringTokens] : k \in 0..MaxStringLen}

InitCall ==
    /\ pc = "idle"
    /\ folder = 0
    /\ include = {}
    /\ exclude = {}
    /\ lines_checked = 0
    /\ with_status = TRUE
    /\ stack = <<>>
    /\ yielded = <<>>
    /\ results = <<>>
    /\ ret = NoRet
    /\ parsed = None
    /\ format = "none"
    /\ output = "stdout"
    /\ without_status = FALSE
    /\ visited = <<>>
    /\ pending = <<>>
    /\ written = <<>>
    /\ file = "untouched"
    /\ open_logs = {}
    /\ peak_open = 0
    /\ passes = 0
    /\ filtered = <<>>

\* a tree of n directories drawn from samples
InitTree(n, samples) ==
    /\ parent \in Trees(n)
    /\ \E c \in [1..n -> samples] :
         /\ marker = [d \in 1..n |-> c[d].marker]
         /\ log = [d \in 1..n |-> c[d].log]

\* what a walker can yield: up to MaxResults results of any status, the
\* path of each its place in the walk
WalkedChoices ==
    UNION {{[i \in 1..k |-> Result(i, sts[i])] : sts \in [1..k -> Status]} :
              k \in 0..MaxResults}

\* include and exclude given as sets of statuses: the members, which are
\* strings of their value
StatusSetChoices == {{StatusValue(m) : m \in ms} : ms \in SUBSET Status}

\* a tree of sample directories, all of them readable
Init ==
    /\ \E n \in 1..MaxDirs :
         /\ InitTree(n, SampleDirs)
         /\ readable = [d \in 1..n |-> TRUE]
    /\ relative = FALSE
    /\ userstring = <<>>
    /\ InitCall

\* one directory with any log
InitStatus ==
    /\ parent = <<0>>
    /\ marker \in [1..1 -> BOOLEAN]
    /\ log \in [1..1 -> {NoFile} \cup {File(ls) : ls \in Logs}]
    /\ readable = <<TRUE>>
    /\ relative = FALSE
    /\ userstring = <<>>
    /\ InitCall

\* a string to parse
InitParse ==
    /\ parent = <<0>>
    /\ marker = <<FALSE>>
    /\ log = <<NoFile>>
    /\ readable = <<TRUE>>
    /\ relative = FALSE
    /\ userstring \in Strings
    /\ InitCall

\* no tree is walked: the filters get a sequence of results
InitFilter ==
    /\ parent = <<0>>
    /\ marker = <<FALSE>>
    /\ log = <<NoFile>>
    /\ readable = <<TRUE>>
    /\ relative = FALSE
    /\ userstring = <<>>
    /\ InitCall

\* a tree for the jobfolders command, its folder given as a relative or as
\* an absolute path
InitCli ==
    /\ \E n \in 1..MaxDirs :
         /\ InitTree(n, CliSampleDirs)
         /\ readable = [d \in 1..n |-> TRUE]
    /\ relative \in BOOLEAN
    /\ userstring = <<>>
    /\ InitCall

\* a tree some directories of which cannot be listed
InitIO ==
    /\ \E n \in 1..MaxDirs :
         /\ InitTree(n, IOSampleDirs)
         /\ readable \in [1..n -> BOOLEAN]
    /\ relative = FALSE
    /\ userstring = <<>>
    /\ InitCall

(* ------------------------------ operations ---------------------------- *)
\* a direct call get_status(path, lines_checked=lc, strict=strict)
GetStatusCall(d, lc, strict) ==
    /\ pc = "idle"
    /\ ret' = [path |-> d, lines_checked |-> lc, strict |-> strict]
                  @@ get_status(d, lc, strict)
    /\ open_logs' = OpenAfter(open_logs, d, get_status_events(d, lc, strict))
    /\ peak_open' = Max(peak_open,
                        PeakDuring(open_logs, d, get_status_events(d, lc, strict)))
    /\ pc' = "returned"
    /\ UNCHANGED <<comparevars, fsvars, callvars, argvars, clivars, sinkvars, parsed,
                   stack, yielded, results, visited>>

\* a direct call Status.from_string(userstring)
FromStringCall ==
    /\ pc = "idle"
    /\ parsed' = from_string(userstring)
    /\ pc' = "returned"
    /\ UNCHANGED <<comparevars, fsvars, callvars, argvars, clivars, sinkvars, logvars,
                   stack, yielded, results, visited, ret>>

\* get_jobfolders(folder, include, exclude, lines_checked, ..., with_status):
\* the walker and the filters are built, nothing is walked yet
GetJobfolders(f, inc, exc, lc, ws) ==
    /\ pc = "idle"
    /\ folder' = f
    /\ include' = inc
    /\ exclude' = exc
    /\ lines_checked' = lc
    /\ with_status' = ws
    /\ IF (inc # {} /\ filter_raises(inc)) \/ (exc # {} /\ filter_raises(exc))
       THEN pc' = "raised" /\ stack' = <<>>
       ELSE pc' = "iterating" /\ stack' = os_walk(f)
    /\ UNCHANGED <<comparevars, fsvars, argvars, clivars, sinkvars, logvars, parsed,
                   yielded, results, visited, ret>>

\* the jobfolders command up to its "match format": get_jobfolders is called
\* with with_status=True, then the writer is defined for csv and for json
JobfoldersCommand(f, inc, exc, lc, fmt, outp, wo) ==
    /\ pc = "idle"
    /\ folder' = f
    /\ include' = inc
    /\ exclude' = exc
    /\ lines_checked' = lc
    /\ with_status' = TRUE
    /\ format' = fmt
    /\ output' = outp
    /\ without_status' = wo
    /\ IF (inc # {} /\ filter_raises(inc)) \/ (exc # {} /\ filter_raises(exc))
       THEN pc' = "raised" /\ stack' = <<>>
       ELSE pc' = "opening" /\ stack' = os_walk(f)
    /\ UNCHANGED <<comparevars, fsvars, argvars, sinkvars, logvars, parsed,
                   yielded, results, visited, ret>>

\* the end of the command: the output file, when one is given, is opened
\* for writing, and writer is called; no writer is bound for a format that
\* is neither csv nor json, and the call raises UnboundLocalError
OpenOutput ==
    /\ pc = "opening"
    /\ file' = IF output = "file" THEN "truncated" ELSE file
    /\ pc' = IF format \notin Formats THEN "raised"
             ELSE IF format = "csv" THEN "header"
             ELSE "iterating"
    /\ UNCHANGED <<comparevars, fsvars, callvars, argvars, clivars, logvars, parsed,
                   pending, written, stack, yielded, results, visited, ret>>

\* write_results_csv: fp.write of the header
WriteHeader ==
    /\ pc = "header"
    /\ written' = Append(written, csv_header(~without_status))
    /\ pc' = "iterating"
    /\ UNCHANGED <<comparevars, fsvars, callvars, argvars, clivars, logvars, parsed,
                   pending, file, stack, yielded, results, visited, ret>>

\* the consumer pulls: os.walk produces its next directory, which goes
\* through is_jobfolder, as_result, the filters and the with_status mapping,
\* and through the formatter when the command consumes
WalkStep ==
    /\ pc = "iterating"
    /\ stack # <<>>
    /\ may_pull(format, pending)
    /\ LET d == Head(stack)
           o == as_result(d, lines_checked)
           r == Result(d, o.value)
           ev == get_status_events(d, lines_checked, TRUE)
       IN  IF os_walk_skips(d)
           THEN /\ stack' = Tail(stack)
                /\ UNCHANGED <<pc, yielded, results, visited, pending, logvars>>
           ELSE
           /\ stack' = os_walk_rest(stack)
           /\ visited' = Append(visited, d)
           /\ IF ~is_jobfolder(d)
              THEN UNCHANGED <<pc, yielded, results, pending, logvars>>
              ELSE IF o.raised
              THEN pc' = "raised" /\ UNCHANGED <<yielded, results, pending, logvars>>
              ELSE /\ pc' = pc
                   /\ open_logs' = OpenAfter(open_logs, d, ev)
                   /\ peak_open' = Max(peak_open, PeakDuring(open_logs, d, ev))
                   /\ yielded' = Append(yielded, r)
                   /\ IF keeps(r.status, include, exclude)
                      THEN /\ results' = Append(results, emitted(r, with_status))
                           /\ pending' = IF format = "none" THEN pending
                                         ELSE Append(pending,
                                                     formatted(format, emitted(r, with_status)))
                      ELSE UNCHANGED <<results, pending>>
    /\ UNCHANGED <<comparevars, fsvars, callvars, argvars, clivars, parsed, written, file, ret>>

\* fp.writelines: the line just formatted is written
WriteLine ==
    /\ pc = "iterating"
    /\ format = "csv"
    /\ pending # <<>>
    /\ written' = Append(written, Head(pending))
    /\ pending' = Tail(pending)
    /\ UNCHANGED <<comparevars, fsvars, callvars, argvars, clivars, logvars, parsed,
                   file, pc, stack, yielded, results, visited, ret>>

\* os.walk has no directory left: the iterator is exhausted; json.dump
\* then writes the list it has collected
Exhaust ==
    /\ pc = "iterating"
    /\ stack = <<>>
    /\ format = "csv" => pending = <<>>
    /\ pc' = "exhausted"
    /\ IF format = "json"
       THEN written' = Append(written, pending) /\ pending' = <<>>
       ELSE UNCHANGED <<written, pending>>
    /\ UNCHANGED <<comparevars, fsvars, callvars, argvars, clivars, logvars, parsed,
                   file, stack, yielded, results, visited, ret>>

\* the consumer iterates the object it has exhausted once more
IterateAgain ==
    /\ pc = "exhausted"
    /\ passes < MaxPasses
    /\ passes' = passes + 1
    /\ stack' = exhausted_walk(folder, stack)
    /\ pc' = "iterating"
    /\ UNCHANGED <<fsvars, callvars, argvars, clivars, sinkvars, logvars, parsed,
                   filtered, yielded, results, visited, ret>>

\* lines 65 to 71 of get_jobfolders on a walker that yields walked
GetJobfoldersOn(walked, inc, exc) ==
    /\ pc = "idle"
    /\ yielded' = walked
    /\ include' = inc
    /\ exclude' = exc
    /\ IF (inc # {} /\ filter_raises(inc)) \/ (exc # {} /\ filter_raises(exc))
       THEN pc' = "raised" /\ results' = <<>>
       ELSE pc' = "filtered" /\ results' = filter_results(walked, inc, exc, with_status)
    /\ UNCHANGED <<fsvars, argvars, clivars, sinkvars, logvars, parsed, passes,
                   filtered, folder, lines_checked, with_status, stack, visited, ret>>

\* apply_filters on the same walker output, with the same include and exclude
ApplyFiltersCall ==
    /\ pc = "filtered"
    /\ filtered' = apply_filters(yielded, include, exclude)
    /\ pc' = "compared"
    /\ UNCHANGED <<fsvars, callvars, argvars, clivars, sinkvars, logvars, parsed,
                   passes, stack, yielded, results, visited, ret>>

Next ==
    \/ \E d \in Dirs, lc \in 0..MaxLinesChecked, strict \in BOOLEAN :
         GetStatusCall(d, lc, strict)
    \/ \E f \in Dirs \cup {NoDirectory}, inc \in FilterChoices, exc \in FilterChoices,
          lc \in 0..MaxLinesChecked, ws \in BOOLEAN :
         GetJobfolders(f, inc, exc, lc, ws)
    \/ WalkStep
    \/ Exhaust

Spec == Init /\ [][Next]_vars

NextStatus ==
    \E d \in Dirs, lc \in 0..MaxLinesChecked, strict \in BOOLEAN :
       GetStatusCall(d, lc, strict)

SpecStatus == InitStatus /\ [][NextStatus]_vars

NextParse == FromStringCall

SpecParse == InitParse /\ [][NextParse]_vars

\* the folder argument of the command is checked by click: an existing
\* directory
NextCli ==
    \/ \E f \in Dirs, inc \in CliFilterChoices, exc \in CliFilterChoices,
          lc \in {0, MaxLinesChecked}, fmt \in FormatChoices,
          outp \in {"stdout", "file"}, wo \in BOOLEAN :
         JobfoldersCommand(f, inc, exc, lc, fmt, outp, wo)
    \/ OpenOutput
    \/ WriteHeader
    \/ WalkStep
    \/ WriteLine
    \/ Exhaust

SpecCli == InitCli /\ [][NextCli]_vars

\* the walk of a tree with directories that cannot be listed
SpecIO == InitIO /\ [][Next]_vars

\* the two filter stages on the same input
NextFilter ==
    \/ /\ pc = "idle"
       /\ \E walked \in WalkedChoices, inc \in StatusSetChoices,
             exc \in StatusSetChoices :
            GetJobfoldersOn(walked, inc, exc)
    \/ ApplyFiltersCall

SpecFilter == InitFilter /\ [][NextFilter]_vars

\* one walker call, iterated by a consumer that keeps asking for the next
\* result and may start over on the object after its end
NextWalk ==
    \/ \E f \in Dirs \cup {NoDirectory} :
         GetJobfolders(f, {}, {}, MaxLinesChecked, TRUE)
    \/ WalkStep
    \/ Exhaust
    \/ IterateAgain

SpecWalk ==
    InitIO /\ [][NextWalk]_vars /\ WF_vars(WalkStep) /\ WF_vars(Exhaust)

(* ------------------------------ properties ---------------------------- *)
\* d is folder or lies below it
RECURSIVE AtOrBelow(_, _)
AtOrBelow(d, f) == d = f \/ (parent[d] # 0 /\ AtOrBelow(parent[d], f))

\* the last n lines of a log, all of them when it has fewer
LastLines(lines, n) == SubSeq(lines, Len(lines) - Min(n, Len(lines)) + 1, Len(lines))

BeginsWithDate(line) == line[1] = DATE
IsDidNotConverge(line) == rstrip(line) = <<DNC>>

\* a direct call of get_status has returned or raised
Called == pc = "returned"
CalledOnJobfolder == Called /\ marker[ret.path]
CalledOnLog ==
    CalledOnJobfolder /\ log[ret.path].exists /\ log[ret.path].lines # <<>>
RetLines == log[ret.path].lines
RetLast == RetLines[Len(RetLines)]
Returned(status) == ~ret.raised /\ ret.value = status

C2_DateLastLineIsConverged ==
    CalledOnLog /\ BeginsWithDate(RetLast) => Returned("converged")

\* CONVERGED although the line before the last is "Did not converge!"
C2_Witness ==
    /\ CalledOnLog
    /\ Len(RetLines) = 2
    /\ ret.lines_checked = 2
    /\ BeginsWithDate(RetLast)
    /\ RetLines[1] = <<DNC>>
    /\ Returned("converged")

\* C3: when the last line does not begin with "Date:" and one of the last
\* lines_checked lines is "Did not converge!" up to trailing whitespace,
\* the status is NOT_CONVERGED.
C3_DidNotConvergeInWindow ==
    ( /\ CalledOnLog
      /\ ~BeginsWithDate(RetLast)
      /\ \E i \in DOMAIN LastLines(RetLines, ret.lines_checked) :
            IsDidNotConverge(LastLines(RetLines, ret.lines_checked)[i]) )
    => Returned("not_converged")

\* the matching line has trailing whitespace and is not the last line
C3_Witness ==
    /\ CalledOnLog
    /\ Len(RetLines) = 2
    /\ ret.lines_checked = 2
    /\ RetLines[1] = <<DNC, WS>>
    /\ RetLines[2] = <<TXT>>
    /\ Returned("not_converged")

\* C4 as stated: when the last line does not begin with "Date:" and none of
\* the last lines_checked lines is "Did not converge!", the status is
\* UNFINISHED, for every lines_checked.
C4_NoSignalInWindowIsUnfinished ==
    ( /\ CalledOnLog
      /\ ~BeginsWithDate(RetLast)
      /\ \A i \in DOMAIN LastLines(RetLines, ret.lines_checked) :
            ~IsDidNotConverge(LastLines(RetLines, ret.lines_checked)[i]) )
    => Returned("unfinished")

\* C5 as stated: with lines_checked = 0 every non-empty log gives UNFINISHED.
C5_ZeroLinesCheckedIsUnfinished ==
    CalledOnLog /\ ret.lines_checked = 0 => Returned("unfinished")

\* C6: for a jobfolder and every lines_checked, NOT_STARTED is returned
\* exactly when the log file does not exist and UNKNOWN exactly when it
\* exists and has no line.
C6_NotStartedAndUnknown ==
    CalledOnJobfolder =>
       /\ Returned("not_started") <=> ~log[ret.path].exists
       /\ Returned("unknown") <=> (log[ret.path].exists /\ log[ret.path].lines = <<>>)

\* an empty log, asked with lines_checked = 0
C6_Witness ==
    /\ CalledOnJobfolder
    /\ log[ret.path] = File(<<>>)
    /\ ret.lines_checked = 0
    /\ Returned("unknown")

\* C7: on a directory without the initial file a strict call raises and a
\* lenient call returns None; neither opens the log nor returns a status.
C7_NotAJobfolder ==
    Called /\ ~marker[ret.path] =>
       /\ ret.strict => ret.raised
       /\ ~ret.strict => ~ret.raised /\ ret.value = None
       /\ ~ret.opened
       /\ ret.value \notin Status

\* a strict call on a directory that has a log but no initial file
C7_Witness ==
    /\ Called
    /\ ~marker[ret.path]
    /\ log[ret.path].exists
    /\ ret.strict
    /\ ret.raised

\* C8: on a jobfolder, with lines_checked >= 1, get_status (strict or not)
\* returns one of the five statuses, never None, and does not raise; so
\* every result of the walker carries one of the five.
C8_JobfolderGetsAStatus ==
    /\ CalledOnJobfolder /\ ret.lines_checked >= 1 =>
          ~ret.raised /\ ret.value \in Status /\ ret.value # None
    /\ \A i \in 1..Len(yielded) : yielded[i].status \in Status
    /\ Cardinality(Status) = 5

\* a lenient call on a jobfolder without a log
C8_Witness ==
    /\ CalledOnJobfolder
    /\ ret.lines_checked >= 1
    /\ ~ret.strict
    /\ ~log[ret.path].exists
    /\ Returned("not_started")

\* the statuses a set of user strings names
Named(strings) == {m \in Status : \E s \in strings : from_string(s) = m}

\* what get_jobfolders hands out for a result of the walker
SameResult(out, r) == out.path = r.path /\ (with_status => out = r)
SameResults(outs, rs) ==
    Len(outs) = Len(rs) /\ \A i \in 1..Len(rs) : SameResult(outs[i], rs[i])

Iterated == pc \in {"iterating", "exhausted"}

\* C9: with a non-empty include and a non-empty exclude, the results are
\* the walker's results whose status is included and not excluded, in the
\* walker's order.
C9_IncludeThenExclude ==
    Iterated /\ include # {} /\ exclude # {} =>
       SameResults(results,
                   SelectSeq(yielded, LAMBDA r : r.status \in Named(include)
                                                  /\ r.status \notin Named(exclude)))

\* a status in both sets is dropped while one only included is kept
C9_Witness ==
    /\ pc = "exhausted"
    /\ Len(yielded) = 2
    /\ yielded[1].status \in Named(include) \cap Named(exclude)
    /\ yielded[2].status \in Named(include) \ Named(exclude)
    /\ Len(results) = 1
    /\ results[1].path = yielded[2].path

\* C10: an empty (or absent) include is no filter, and so is an empty
\* exclude; with both empty the results are the walker's, all of them and
\* in the same order.
C10_EmptyFilterIsNoFilter ==
    /\ Iterated /\ include = {} =>
          SameResults(results,
                      SelectSeq(yielded, LAMBDA r : r.status \notin Named(exclude)))
    /\ Iterated /\ exclude = {} =>
          SameResults(results,
                      SelectSeq(yielded, LAMBDA r : include # {} => r.status \in Named(include)))
    /\ Iterated /\ include = {} /\ exclude = {} => SameResults(results, yielded)

\* both filters empty and two results handed out
C10_Witness ==
    /\ pc = "exhausted"
    /\ include = {}
    /\ exclude = {}
    /\ Len(yielded) = 2
    /\ Len(results) = 2
    /\ yielded[1].status # yielded[2].status

\* from_string has been called on userstring
Parsed == pc = "returned" /\ parsed # None

\* userstring spells the name of member m: the same words in any letter
\* case, with "-", "_" or " " between them, and whitespace around
Separators == {"-", "_", WS}
IsSpellingOf(str, m) ==
    LET core == lower(strip(str))
    IN  [i \in DOMAIN core |-> IF core[i] \in Separators THEN "_" ELSE core[i]]
           = StatusValue(m)

\* C11 as stated: from_string maps every spelling of a member's name (any
\* letter case, surrounding whitespace, hyphen, underscore or space between
\* the words) to that member, and raises for every other string.
C11_FromStringAcceptsEverySpelling ==
    Parsed =>
       /\ \A m \in Status : IsSpellingOf(userstring, m) => parsed = m
       /\ (~\E m \in Status : IsSpellingOf(userstring, m)) => parsed = ValueError

\* a string of include or exclude does not parse to a status
Unparseable(strings) == \E str \in strings : from_string(str) \notin Status

\* a call of get_jobfolders or of the jobfolders command has been made
CalledJobfolders == pc \notin {"idle", "returned"}

\* C12: when a string of include or exclude does not parse, the call raises
\* at once: no directory has been visited or classified, no result filtered,
\* nothing written and the output file not opened, whatever the tree holds.
C12_BadFilterRaisesEagerly ==
    CalledJobfolders /\ Unparseable(include \cup exclude) =>
       /\ pc = "raised"
       /\ visited = <<>>
       /\ yielded = <<>>
       /\ results = <<>>
       /\ pending = <<>>
       /\ written = <<>>
       /\ file = "untouched"
       /\ peak_open = 0

\* the command has raised on a bad --exclude, on a tree without a jobfolder
C12_Witness ==
    /\ pc = "raised"
    /\ include = {}
    /\ Unparseable(exclude)
    /\ \A d \in Dirs : ~marker[d]
    /\ output = "file"
    /\ file = "untouched"

\* C13 as stated: for a folder that is no directory the walker fails; it
\* never ends normally with an empty sequence.
C13_BadRootNeverExhausts ==
    folder \notin Dirs => pc # "exhausted"

\* C14 as stated: with a format that is neither json nor csv the command
\* ends with an error before any output: nothing classified, nothing
\* written, the output file not created, opened or truncated.
C14_BadFormatFailsBeforeOutput ==
    CalledJobfolders /\ format \notin Formats \cup {"none"} =>
       /\ pc \in {"opening", "raised"}
       /\ yielded = <<>>
       /\ written = <<>>
       /\ file = "untouched"

\* the names of the fields of a written line, in order
FieldNames(line) ==
    [i \in DOMAIN line |-> IF "path" \in DOMAIN line[i] THEN "path" ELSE "status"]

\* the lines written after the header
DataLines == {i \in DOMAIN written : i >= 2}

\* C15 as stated: in csv output with status every data line has its fields
\* in the order of the header, the path and then the status.
C15_CsvFieldsFollowHeader ==
    format = "csv" /\ ~without_status =>
       \A i \in DataLines :
          /\ written[1] = <<"path", "status">>
          /\ FieldNames(written[i]) = written[1]

\* C16 as stated: with status stripped every record holds the path only,
\* each json object and each csv line under the header "path"; with status
\* kept every record holds both.
C16_WithoutStatusDropsStatus ==
    /\ format = "csv" =>
          \A i \in DataLines :
             Len(written[i]) = (IF without_status THEN 1 ELSE 2)
    /\ format = "json" /\ pc = "exhausted" =>
          \A i \in DOMAIN written[1] :
             DOMAIN written[1][i] = (IF without_status THEN {"path"}
                                     ELSE {"path", "status"})

\* the paths written so far
WrittenPaths ==
    IF format = "csv"
    THEN UNION {{written[i][j].path : j \in {k \in DOMAIN written[i] :
                    "path" \in DOMAIN written[i][k]}} : i \in DataLines}
    ELSE IF format = "json" /\ pc = "exhausted"
    THEN {written[1][i].path : i \in DOMAIN written[1]}
    ELSE {}

\* C17 as stated: every result of the walker carries an absolute path,
\* whether the folder was given as an absolute or as a relative path.
C17_ResultPathsAreAbsolute ==
    \A i \in DOMAIN yielded : result_path(yielded[i]).absolute

\* C17, amended: a result of the walker carries an absolute path exactly
\* when the folder was given as an absolute path; every path the formatters
\* write is absolute in both cases, and names the result's directory.
C17_PathsAbsoluteWhenWritten ==
    /\ \A i \in DOMAIN yielded : result_path(yielded[i]).absolute <=> ~relative
    /\ \A p \in WrittenPaths :
          p.absolute /\ \E i \in DOMAIN yielded : yielded[i].path = p.dir

\* a relative folder, a result with a relative path and its line written
C17_Witness ==
    /\ relative
    /\ format = "csv"
    /\ Len(yielded) >= 1
    /\ ~result_path(yielded[1]).absolute
    /\ \E p \in WrittenPaths : p.dir = yielded[1].path /\ p.absolute

\* C18 as stated: a directory that cannot be listed is never dropped
\* silently; the code has no diagnostic, so a walk that ends without error
\* has visited every directory at or below folder.
C18_NoDirectorySilentlyDropped ==
    pc = "exhausted" =>
       \A d \in Dirs : AtOrBelow(d, folder) =>
          \E i \in DOMAIN visited : visited[i] = d

\* C19: csv output is streamed: the header is written before any jobfolder
\* is classified, and every result's line is written before the next
\* jobfolder is classified, so at most one result is unwritten, and none
\* while a jobfolder is classified.
C19_CsvIsStreamed ==
    format = "csv" =>
       /\ Len(yielded) >= 1 => Len(written) >= 1 /\ written[1] = csv_header(~without_status)
       /\ Len(pending) <= 1
       /\ pc \in {"iterating", "exhausted"} =>
             Len(written) - 1 + Len(pending) = Len(results)
       /\ \A i \in DataLines : written[i] = csv_formatter(results[i - 1])

\* the first line waits to be written while a second jobfolder is to come
C19_Witness ==
    /\ format = "csv"
    /\ pc = "iterating"
    /\ Len(written) = 2
    /\ Len(pending) = 1
    /\ Len(results) = 2

\* C20: no two log files are open at once, and no log is open when a
\* result is yielded, when the next directory is visited or when
\* get_status has returned, whatever return it took.
C20_LogsAreClosed ==
    /\ open_logs = {}
    /\ peak_open <= 1

\* two jobfolders classified, an empty log among them, one log open at most
C20_Witness ==
    /\ pc = "exhausted"
    /\ Len(yielded) = 2
    /\ \E i \in 1..2 : yielded[i].status = "unknown"
    /\ \E i \in 1..2 : yielded[i].status \in {"converged", "not_converged", "unfinished"}
    /\ peak_open = 1
    /\ open_logs = {}

\* C21: the iteration of one walker call always reaches its end, and the
\* object is consumed once: from its end on it yields no further result and
\* visits no further directory, however often it is iterated again.
C21_WalkEndsAndIsConsumedOnce ==
    /\ (pc = "iterating") ~> (pc = "exhausted")
    /\ [][pc = "exhausted" \/ passes >= 1 =>
            yielded' = yielded /\ results' = results /\ visited' = visited]_vars

\* a walk that has yielded a result, iterated again to its end
C21_Witness ==
    /\ pc = "exhausted"
    /\ passes >= 1
    /\ Len(yielded) >= 1
    /\ Len(visited) = Cardinality(Dirs)

WindowSizes == 1..(MaxLinesChecked + 1)

\* the status get_status gives the directory with a window of n lines
StatusWith(d, n) == get_status(d, n, TRUE).value

\* C23: for a jobfolder with a non-empty log and window sizes 1 <= m <= n,
\* the status is CONVERGED with m exactly when it is with n, NOT_CONVERGED
\* with m implies NOT_CONVERGED with n, and UNFINISHED with n implies
\* UNFINISHED with m; m is the window of the call made.
C23_StatusMonotoneInWindow ==
    CalledOnLog /\ ret.lines_checked >= 1 =>
       \A n \in WindowSizes : n >= ret.lines_checked =>
          /\ Returned("converged") <=> StatusWith(ret.path, n) = "converged"
          /\ Returned("not_converged") => StatusWith(ret.path, n) = "not_converged"
          /\ StatusWith(ret.path, n) = "unfinished" => Returned("unfinished")

\* UNFINISHED with a window of one line, NOT_CONVERGED with a larger one
C23_Witness ==
    /\ CalledOnLog
    /\ ret.lines_checked = 1
    /\ Returned("unfinished")
    /\ \E n \in WindowSizes : StatusWith(ret.path, n) = "not_converged"

====
